---------------------------- MODULE Spec2Model ----------------------------
(***************************************************************************)
(* A model of genny's performance-report tooling:                          *)
(*                                                                         *)
(*   - src/workloads/contrib/analysis/test_result_summary_v2.py            *)
(*       process_ftdc_files: runs curator calculate-rollups on every       *)
(*       .ftdc capture of a directory, filters and rescales its output     *)
(*       and prints the aggregate mapping (specification SpecRollup);      *)
(*   - src/python/genny/cedar_report.py                                    *)
(*       main__cedar_report: builds the cedar report from the environment, *)
(*       writes it, fetches the certificates and runs curator poplar send  *)
(*       (specification SpecReport).                                       *)
(*                                                                         *)
(* Strings that the code slices (file names, paths) are sequences of       *)
(* characters or of path tokens, so that endswith, [:-5], basename and     *)
(* join are computed, not assumed.                                         *)
(***************************************************************************)
EXTENDS Integers, Sequences, FiniteSets, TLC

VARIABLES
    \* ---- process_ftdc_files ----
    pc,            \* position in process_ftdc_files
    curator_names, \* the rollup names the curator binary at curator_path emits
    listing,       \* os.listdir(ftdc_dir), in the order the loop sees it
    idx,           \* number of directory entries the loop has taken
    output_file,   \* what /tmp/<base_name>.output of the current capture holds
    result_map,    \* result_map
    stdout,        \* what has been printed, one element per print call
    ret,           \* the value process_ftdc_files returned (NotReturned before)
    log,           \* history: per capture taken, what the curator did with it
    \* ---- main__cedar_report ----
    rpc,           \* position in main__cedar_report
    env,           \* the env mapping (keys present and their values)
    args,          \* the parsed command line
    fs,            \* the files that exist, path -> content
    metrics,       \* what cedar.run returned, NoValue before it ran
    config,        \* the _Config instance, NoValue before it is built
    report,        \* report_dict, NoValue before it is built
    creds,         \* jira_user / jira_pwd once read
    command,       \* the curator command as get_command has evaluated it so far
    error,         \* the exception that ended the run, NoError if none
    io             \* history: the I/O performed, in order

rollup_vars == <<pc, curator_names, listing, idx, output_file, result_map, stdout, ret, log>>
report_vars == <<rpc, env, args, fs, metrics, config, report, creds, command, error, io>>
vars == <<rollup_vars, report_vars>>

-----------------------------------------------------------------------------
(* Bounds of the model *)

MaxRecords == 2      \* records in one curator output file
MaxFiles == 2        \* entries of the capture directory
MaxMetricFiles == 2  \* metric files cedar.run returns

-----------------------------------------------------------------------------
(* Small helpers on finite maps and sequences *)

EmptyMap == [k \in {} |-> 0]

Put(m, k, v) == [x \in (DOMAIN m) \cup {k} |-> IF x = k THEN v ELSE m[x]]

SeqsUpTo(S, n) == UNION {[1..k -> S] : k \in 0..n}

NoValue == [py |-> "None"]

-----------------------------------------------------------------------------
(* Values: JSON values of the curator output, Python numbers of the result *)

JInt(n) == [t |-> "int", n |-> n]
JNull == [t |-> "null", n |-> 0]

PyInt(n) == [t |-> "int", n |-> n]
\* The double nearest to num/den: the quotient, and on which side of it the
\* double lies (err = 1 above, -1 below, 0 exactly on it).
PyFloatDiv(num, den, err) == [t |-> "float", num |-> num, den |-> den, err |-> err]
\* The double nearest to whole + milli/1000.
PyFloat3(whole, milli) == [t |-> "float", whole |-> whole, milli |-> milli]
PyNone == [t |-> "None"]
TypeError == [t |-> "TypeError"]
KeyError == [t |-> "KeyError"]
IsException(x) == x.t \in {"TypeError", "KeyError"}

-----------------------------------------------------------------------------
(* FIELDS_TO_EXTRACT and the arithmetic of its lambdas *)

Million == 1000000
Billion == 1000000000

LatencyFields ==
    {"AverageLatency", "Latency50thPercentile", "Latency80thPercentile",
     "Latency90thPercentile", "Latency95thPercentile", "Latency99thPercentile",
     "LatencyMin", "LatencyMax"}

DurationFields == {"DurationTotal"}

IdentityFields ==
    {"OperationThroughput", "ErrorRate", "ErrorsTotal", "OperationsTotal",
     "DocumentsTotal"}

\* The keys of FIELDS_TO_EXTRACT.
FieldNames == LatencyFields \cup DurationFields \cup IdentityFields

RECURSIVE BitLength(_)
BitLength(q) == IF q = 0 THEN 0 ELSE 1 + BitLength(q \div 2)

\* The remainder r (0 <= r < d) after one, eight and n more bits of the
\* binary long division by d.
Double(r, d) == (2 * r) % d
Double8(r, d) ==
    Double(Double(Double(Double(Double(Double(Double(Double(r, d), d), d), d), d), d), d), d)

RECURSIVE Doubles(_, _, _)
Doubles(r, n, d) ==
    IF n = 0 \/ r = 0 THEN r
    ELSE IF n >= 8 THEN Doubles(Double8(r, d), n - 8, d)
    ELSE Doubles(Double(r, d), n - 1, d)

\* The position after the binary point of the first 1 of r/d (0 < r < d).
FirstOne(r, d) ==
    LET c == (d + r - 1) \div r
    IN  CHOOSE z \in 1..30 : 2^z >= c /\ 2^(z - 1) < c

\* v / d on Python ints: true division, correctly rounded to a double. The
\* quotient is divided out in binary down to its 53rd significant bit and
\* what is left is rounded to nearest, ties to even; err is the side of the
\* exact quotient the double lies on.
TrueDiv(v, d) ==
    LET q == v \div d
        r == v % d
        bits == IF q > 0 THEN 53 - BitLength(q) ELSE FirstOne(r, d) + 52
        before == Doubles(r, bits - 1, d)
        last == IF 2 * before >= d THEN 1 ELSE 0
        left == 2 * before - last * d
        err == IF r = 0 \/ left = 0 THEN 0
               ELSE IF 2 * left > d THEN 1
               ELSE IF 2 * left < d THEN -1
               ELSE IF last = 1 THEN 1 ELSE -1
    IN  PyFloatDiv(v, d, err)

\* A faulty variant of FIELDS_TO_EXTRACT: the two divisors swapped.
FIELDS_TO_EXTRACT_Bug_WrongDivisor(name, value) ==
    IF name \notin FieldNames THEN KeyError
    ELSE IF name \in IdentityFields
    THEN (IF value.t = "int" THEN PyInt(value.n) ELSE PyNone)
    ELSE IF value.t # "int" THEN TypeError
    ELSE IF name \in LatencyFields THEN TrueDiv(value.n, Billion)
    ELSE TrueDiv(value.n, Million)

\* FIELDS_TO_EXTRACT[name](value): the lookup, then the lambda.
FIELDS_TO_EXTRACT(name, value) ==
    IF name \notin FieldNames THEN KeyError
    ELSE IF name \in IdentityFields
    THEN (IF value.t = "int" THEN PyInt(value.n) ELSE PyNone)
    ELSE IF value.t # "int" THEN TypeError
    ELSE IF name \in LatencyFields THEN TrueDiv(value.n, Million)
    ELSE TrueDiv(value.n, Billion)

\* round(x, 3): an int is returned as it is; a double is rounded on its exact
\* binary value, so a decimal tie goes to the side the double lies on.
Round3(x) ==
    IF IsException(x) \/ x.t = "int" THEN x
    ELSE IF x.t # "float" THEN TypeError
    ELSE LET u == x.den \div 1000
             k == x.num \div u
             rem == x.num % u
             up == \/ 2 * rem > u
                   \/ 2 * rem = u /\ (x.err > 0 \/ (x.err = 0 /\ k % 2 = 1))
             kk == IF up THEN k + 1 ELSE k
         IN  PyFloat3(kk \div 1000, kk % 1000)

-----------------------------------------------------------------------------
(* The capture directory and what curator calculate-rollups may write *)

DotFtdc == <<".", "f", "t", "d", "c">>

\* The directory entries of the model: run1.ftdc, run2.ftdc, notes.txt.
Filenames ==
    { <<"r", "u", "n", "1">> \o DotFtdc,
      <<"r", "u", "n", "2">> \o DotFtdc,
      <<"n", "o", "t", "e", "s", ".", "t", "x", "t">> }

\* os.listdir: any selection of entries, in any order, no name twice.
Listings ==
    {l \in SeqsUpTo(Filenames, MaxFiles) :
        \A i, j \in DOMAIN l : i # j => l[i] # l[j]}

\* filename.endswith(suffix)
EndsWith(s, suffix) ==
    /\ Len(s) >= Len(suffix)
    /\ SubSeq(s, Len(s) - Len(suffix) + 1, Len(s)) = suffix

\* filename[:-5]
BaseName(filename) ==
    IF Len(filename) <= 5 THEN <<>> ELSE SubSeq(filename, 1, Len(filename) - 5)

\* The names a curator build may emit: each of the table's names beside a
\* rollup the table does not know, and pairs of names of different units.
UnknownNames == {"Unused"}
Vocabularies ==
    {{f, u} : f \in FieldNames, u \in UnknownNames}
        \cup {{"AverageLatency", "DurationTotal"},
              {"LatencyMax", "ErrorRate"},
              {"DurationTotal", "OperationsTotal"}}

\* The Value a record of that name may carry: magnitudes of the field's unit,
\* one of them a decimal tie at the third place after conversion, or null.
RawValues(name) ==
    IF name \in LatencyFields THEN {JInt(2000000), JInt(5500), JNull}
    ELSE IF name \in DurationFields THEN {JInt(2000000000), JInt(5500000), JNull}
    ELSE IF name \in IdentityFields THEN {JInt(2000000), JInt(5), JNull}
    ELSE {JInt(5), JNull}

Items(names) ==
    UNION {{[Name |-> nm, Value |-> v] : v \in RawValues(nm)} : nm \in names}

\* What the output path of a capture holds: nothing, something json.load
\* or the iteration rejects, or a JSON array of records.
Absent == [state |-> "absent", data |-> <<>>]
Garbled == [state |-> "garbled", data |-> <<>>]
JsonArray(data) == [state |-> "json", data |-> data]

OutputFiles(names) ==
    {Garbled} \cup {JsonArray(d) : d \in SeqsUpTo(Items(names), MaxRecords)}

-----------------------------------------------------------------------------
(* process_ftdc_files *)

Failed == [ok |-> FALSE, filtered |-> EmptyMap]

\* A faulty variant of InTable: no filter.
InTable_Bug_KeepsAll(name) == TRUE

\* name in FIELDS_TO_EXTRACT
InTable(name) == name \in FieldNames

\* The for loop over output_data, from record i on; an exception leaves it.
RECURSIVE FilterItems(_, _, _)
FilterItems(data, i, filtered) ==
    IF i > Len(data) THEN [ok |-> TRUE, filtered |-> filtered]
    ELSE LET name == data[i].Name
         IN  IF InTable(name)
             THEN LET x == Round3(FIELDS_TO_EXTRACT(name, data[i].Value))
                  IN  IF IsException(x) THEN Failed
                      ELSE FilterItems(data, i + 1, Put(filtered, name, x))
             ELSE FilterItems(data, i + 1, filtered)

\* The body of the second try block up to the assignment to result_map.
ReadAndFilter(file) ==
    IF file.state # "json" THEN Failed
    ELSE FilterItems(file.data, 1, EmptyMap)

CuratorError(filename) == [print |-> "Error running curator on", arg |-> filename]
ParseError(filename) == [print |-> "Error reading/parsing output for", arg |-> filename]
JsonDump(m) == [print |-> "json.dumps", arg |-> m]

NotReturned == [py |-> "running"]

\* History: is this output one the second try block gets through?
WellFormed(file) ==
    /\ file.state = "json"
    /\ \A i \in DOMAIN file.data :
          file.data[i].Name \in FieldNames => file.data[i].Value.t = "int"

AtLoopHead == pc = "for" /\ idx < Len(listing)
Filename == listing[idx + 1]

\* lines 27-28: an entry that is no capture is passed over
SkipEntry ==
    /\ AtLoopHead
    /\ ~EndsWith(Filename, DotFtdc)
    /\ idx' = idx + 1
    /\ UNCHANGED <<pc, curator_names, listing, output_file, result_map, stdout, ret, log>>
    /\ UNCHANGED report_vars

\* A faulty variant of CuratorFails: the batch is given up.
CuratorFails_Bug_Aborts ==
    /\ AtLoopHead
    /\ EndsWith(Filename, DotFtdc)
    /\ stdout' = Append(stdout, CuratorError(Filename))
    /\ output_file' = Absent
    /\ log' = Append(log, [base |-> BaseName(Filename), exit |-> 1, wellformed |-> FALSE])
    /\ idx' = Len(listing)
    /\ result_map' = EmptyMap
    /\ UNCHANGED <<pc, curator_names, listing, ret>>
    /\ UNCHANGED report_vars

\* lines 35-44: curator exits non-zero
CuratorFails ==
    /\ AtLoopHead
    /\ EndsWith(Filename, DotFtdc)
    /\ stdout' = Append(stdout, CuratorError(Filename))
    /\ output_file' = Absent
    /\ log' = Append(log, [base |-> BaseName(Filename), exit |-> 1, wellformed |-> FALSE])
    /\ idx' = idx + 1
    /\ UNCHANGED <<pc, curator_names, listing, result_map, ret>>
    /\ UNCHANGED report_vars

\* lines 35-41: curator exits 0, having written (or not) the output file
CuratorSucceeds ==
    /\ AtLoopHead
    /\ EndsWith(Filename, DotFtdc)
    /\ \E o \in OutputFiles(curator_names) :
          /\ output_file' = o
          /\ log' = Append(log, [base |-> BaseName(Filename), exit |-> 0,
                                 wellformed |-> WellFormed(o)])
    /\ pc' = "read"
    /\ UNCHANGED <<curator_names, listing, idx, result_map, stdout, ret>>
    /\ UNCHANGED report_vars

\* A faulty variant of ReadOutput: what was converted before the exception
\* is stored.
ReadOutput_Bug_StoresPartial ==
    /\ pc = "read"
    /\ LET r == ReadAndFilter(output_file)
       IN  /\ result_map' = Put(result_map, BaseName(Filename), r.filtered)
           /\ stdout' = IF r.ok THEN stdout ELSE Append(stdout, ParseError(Filename))
    /\ pc' = "for"
    /\ idx' = idx + 1
    /\ UNCHANGED <<curator_names, listing, output_file, ret, log>>
    /\ UNCHANGED report_vars

\* lines 47-61: the second try block of the iteration
ReadOutput ==
    /\ pc = "read"
    /\ LET r == ReadAndFilter(output_file)
       IN  IF r.ok
           THEN /\ result_map' = Put(result_map, BaseName(Filename), r.filtered)
                /\ UNCHANGED stdout
           ELSE /\ stdout' = Append(stdout, ParseError(Filename))
                /\ UNCHANGED result_map
    /\ pc' = "for"
    /\ idx' = idx + 1
    /\ UNCHANGED <<curator_names, listing, output_file, ret, log>>
    /\ UNCHANGED report_vars

\* A faulty variant of PrintResult: the print is missing.
PrintResult_Bug_PrintsNothing ==
    /\ pc = "for"
    /\ idx = Len(listing)
    /\ ret' = PyNone
    /\ pc' = "done"
    /\ UNCHANGED <<curator_names, listing, idx, output_file, result_map, stdout, log>>
    /\ UNCHANGED report_vars

\* line 63, and the return None that ends the function
PrintResult ==
    /\ pc = "for"
    /\ idx = Len(listing)
    /\ stdout' = Append(stdout, JsonDump(result_map))
    /\ ret' = PyNone
    /\ pc' = "done"
    /\ UNCHANGED <<curator_names, listing, idx, output_file, result_map, log>>
    /\ UNCHANGED report_vars

-----------------------------------------------------------------------------
(* Paths: a path is a sequence of tokens, "/" the separator *)

Sep == "/"

RECURSIVE LastSep(_)
\* p.rfind('/'), as an index from 1 (0 when there is none)
LastSep(p) ==
    IF p = <<>> THEN 0
    ELSE IF p[Len(p)] = Sep THEN Len(p)
    ELSE LastSep(SubSeq(p, 1, Len(p) - 1))

\* os.path.basename(path)
Basename(path) == SubSeq(path, LastSep(path) + 1, Len(path))

\* os.path.join(a, b)
Join(a, b) ==
    IF b # <<>> /\ b[1] = Sep THEN b
    ELSE IF a = <<>> \/ a[Len(a)] = Sep THEN a \o b
    ELSE a \o <<Sep>> \o b

REPORT_FILE == <<"cedar_report.json">>

-----------------------------------------------------------------------------
(* main__cedar_report: its inputs *)

\* The keys _Config.__init__ and main__cedar_report read from env, beside
\* test_name, which main__cedar_report sets itself.
EnvKeys ==
    {"EVG_project", "EVG_version", "EVG_variant", "EVG_task_name", "EVG_task_id",
     "EVG_execution_number", "EVG_is_patch", "aws_key", "aws_secret",
     "perf_jira_user", "perf_jira_pw"}

FullEnv(is_patch) ==
    [k \in EnvKeys |->
        CASE k = "EVG_project" -> "genny"
          [] k = "EVG_version" -> "v1"
          [] k = "EVG_variant" -> "linux"
          [] k = "EVG_task_name" -> "smoke"
          [] k = "EVG_task_id" -> "task7"
          [] k = "EVG_execution_number" -> "0"
          [] k = "EVG_is_patch" -> is_patch
          [] k = "aws_key" -> "AKIA"
          [] k = "aws_secret" -> "s3cr3t"
          [] k = "perf_jira_user" -> "jira"
          [] OTHER -> "pw"]

Without(m, k) == [x \in (DOMAIN m) \ {k} |-> m[x]]

\* EVG_is_patch is "true" in a patch build; any other text is not "true".
PatchValues == {"true", "false"}

\* The environments: complete, or lacking one key.
Envs ==
    LET full == {FullEnv(v) : v \in PatchValues}
    IN  full \cup {Without(e, k) : e \in full, k \in EnvKeys}

ArgSets ==
    [test_name : {"", "nightly"},
     output_dir : {<<".">>, <<"out">>},
     report_file : {REPORT_FILE, <<"other.json">>}]

\* The certificate files of CertRetriever, in the working directory.
UserCert == <<"cedar.user.crt">>
UserKey == <<"cedar.user.key">>
RootCa == <<"cedar.ca.pem">>
PemFiles == {UserCert, UserKey, RootCa}

\* The file system at the start: any of the certificate files may be there
\* from an earlier run.
CachedPem == [file |-> "pem", from |-> "an earlier run"]
FileSystems == {[f \in c |-> CachedPem] : c \in SUBSET PemFiles}

\* What cedar.run may return.
MetricPaths ==
    { <<Sep, "tmp", Sep, "a.txt">>, <<Sep, "tmp", Sep, "b.txt">>, <<"c.csv">> }
MetricLists == SeqsUpTo(MetricPaths, MaxMetricFiles)
TestRunTimes == {0, 30}
Now == 100

\* The statuses the cedar endpoints may answer with.
HttpStatuses == {200, 304, 404, 500}

\* Response.raise_for_status raises on 4xx and 5xx.
RaisesForStatus(status) == status >= 400 /\ status < 600

ExitCodes == {0, 1}

-----------------------------------------------------------------------------
(* _Config and build_report *)

\* The keys _Config.__init__ reads, in the order it reads them.
ConfigKeys ==
    <<"EVG_project", "EVG_version", "EVG_variant", "EVG_task_name", "EVG_task_id",
      "EVG_execution_number", "EVG_is_patch", "test_name", "aws_key", "aws_secret">>

RECURSIVE FirstMissing(_, _, _)
\* The first key of keys, from position i on, that e lacks; "" if none.
FirstMissing(e, keys, i) ==
    IF i > Len(keys) THEN ""
    ELSE IF keys[i] \notin DOMAIN e THEN keys[i]
    ELSE FirstMissing(e, keys, i + 1)

NoError == [exc |-> "none", arg |-> ""]
KeyErrorOf(key) == [exc |-> "KeyError", arg |-> key]
HTTPError(status) == [exc |-> "HTTPError", arg |-> status]
CalledProcessError(rc) == [exc |-> "CalledProcessError", arg |-> rc]

\* _Config(env, metrics_file_names, test_run_time), every key present
NewConfig(e, metrics_file_names, test_run_time) ==
    [project |-> e["EVG_project"],
     version |-> e["EVG_version"],
     variant |-> e["EVG_variant"],
     task_name |-> e["EVG_task_name"],
     task_id |-> e["EVG_task_id"],
     execution_number |-> e["EVG_execution_number"],
     mainline |-> ~(e["EVG_is_patch"] = "true"),
     test_name |-> e["test_name"],
     metrics_file_names |-> metrics_file_names,
     test_run_time |-> test_run_time,
     now |-> Now,
     api_key |-> e["aws_key"],
     api_secret |-> e["aws_secret"],
     cloud_region |-> "us-east-1",
     cloud_bucket |-> "dsi-genny-metrics"]

\* _Config.created_at
created_at(c) == c.now - c.test_run_time

\* The artifacts list of build_report, lines 96-108.
Artifacts(c) ==
    [i \in DOMAIN c.metrics_file_names |->
        [bucket |-> c.cloud_bucket,
         path |-> Basename(c.metrics_file_names[i]),
         tags |-> <<>>,
         local_path |-> c.metrics_file_names[i],
         created_at |-> created_at(c),
         is_uncompressed |-> TRUE]]

\* '{}_{}'.format(task_id, execution_number)
BucketPrefix(c) == <<c.task_id, "_", c.execution_number>>

\* A Python dict, carried with its type: CedarTest documents a list there.
PyDict(d) == [py |-> "dict", val |-> d]

\* CedarBucketConfig(...)._asdict()
BucketConfigDict(c) ==
    [api_key |-> c.api_key,
     api_secret |-> c.api_secret,
     api_token |-> NoValue,
     region |-> c.cloud_region,
     name |-> c.cloud_bucket,
     prefix |-> BucketPrefix(c)]

\* The CedarBucketConfig itself: a named tuple, its fields in order.
BucketConfigTuple(c) ==
    <<c.api_key, c.api_secret, NoValue, c.cloud_region, c.cloud_bucket, BucketPrefix(c)>>

build_report(c) ==
    LET artifacts == Artifacts(c)
        test_info == [test_name |-> c.test_name, trial |-> 0, tags |-> <<>>,
                      args |-> EmptyMap]
        test == [info |-> test_info,
                 created_at |-> created_at(c),
                 completed_at |-> c.now,
                 artifacts |-> PyDict(BucketConfigDict(c)),
                 metrics |-> NoValue,
                 sub_tests |-> NoValue]
    IN  [project |-> c.project,
         version |-> c.version,
         variant |-> c.variant,
         task_name |-> c.task_name,
         task_id |-> c.task_id,
         execution_number |-> c.execution_number,
         mainline |-> c.mainline,
         tests |-> <<test>>,
         bucket |-> BucketConfigTuple(c)]

\* json.dump(report_dict, f, cls=ISODateTimeEncoder)
ReportJson(r) == [file |-> "json", doc |-> r]

-----------------------------------------------------------------------------
(* main__cedar_report, a step at a time *)

Raise(exc) == error' = exc /\ rpc' = "raised"

\* lines 271-274
SetTestName ==
    /\ rpc = "start"
    /\ IF args.test_name # ""
       THEN /\ env' = Put(env, "test_name", args.test_name)
            /\ rpc' = "cedar"
            /\ UNCHANGED error
       ELSE IF "EVG_task_name" \in DOMAIN env
       THEN /\ env' = Put(env, "test_name", env["EVG_task_name"])
            /\ rpc' = "cedar"
            /\ UNCHANGED error
       ELSE /\ Raise(KeyErrorOf("EVG_task_name"))
            /\ UNCHANGED env
    /\ UNCHANGED <<args, fs, metrics, config, report, creds, command, io>>
    /\ UNCHANGED rollup_vars

\* line 276: the metrics conversion
CedarRun ==
    /\ rpc = "cedar"
    /\ \E files \in MetricLists, t \in TestRunTimes :
          metrics' = [metrics_file_names |-> files, test_run_time |-> t]
    /\ io' = Append(io, [op |-> "cedar.run"])
    /\ rpc' = "config"
    /\ UNCHANGED <<env, args, fs, config, report, creds, command, error>>
    /\ UNCHANGED rollup_vars

\* line 277
MakeConfig ==
    /\ rpc = "config"
    /\ LET missing == FirstMissing(env, ConfigKeys, 1)
       IN  IF missing # ""
           THEN Raise(KeyErrorOf(missing)) /\ UNCHANGED config
           ELSE /\ config' = NewConfig(env, metrics.metrics_file_names,
                                       metrics.test_run_time)
                /\ rpc' = "report"
                /\ UNCHANGED error
    /\ UNCHANGED <<env, args, fs, metrics, report, creds, command, io>>
    /\ UNCHANGED rollup_vars

\* lines 279-282
WriteReport ==
    /\ rpc = "report"
    /\ report' = build_report(config)
    /\ LET path == Join(args.output_dir, args.report_file)
       IN  /\ fs' = Put(fs, path, ReportJson(report'))
           /\ io' = Append(io, [op |-> "write", path |-> path])
    /\ rpc' = "jira"
    /\ UNCHANGED <<env, args, metrics, config, creds, command, error>>
    /\ UNCHANGED rollup_vars

\* A faulty variant of ReadJiraCredentials: env.get instead of env[...].
ReadJiraCredentials_Bug_GetsNone ==
    /\ rpc = "jira"
    /\ LET missing == FirstMissing(env, <<"perf_jira_user", "perf_jira_pw">>, 1)
       IN  /\ creds' = IF missing # "" THEN NoValue
                        ELSE [username |-> env["perf_jira_user"],
                              password |-> env["perf_jira_pw"]]
           /\ rpc' = "user_cert"
           /\ UNCHANGED error
    /\ UNCHANGED <<env, args, fs, metrics, config, report, command, io>>
    /\ UNCHANGED rollup_vars

\* lines 284-285
ReadJiraCredentials ==
    /\ rpc = "jira"
    /\ LET missing == FirstMissing(env, <<"perf_jira_user", "perf_jira_pw">>, 1)
       IN  IF missing # ""
           THEN Raise(KeyErrorOf(missing)) /\ UNCHANGED creds
           ELSE /\ creds' = [username |-> env["perf_jira_user"],
                             password |-> env["perf_jira_pw"]]
                /\ rpc' = "user_cert"
                /\ UNCHANGED error
    /\ UNCHANGED <<env, args, fs, metrics, config, report, command, io>>
    /\ UNCHANGED rollup_vars

\* A faulty variant of Fetch: the file that is there is fetched again.
Fetch_Bug_IgnoresCache(at, output, before, after, next) ==
    /\ rpc = at
    /\ \E status \in HttpStatuses :
          /\ io' = Append(io, [op |-> "http", output |-> output, status |-> status])
          /\ IF RaisesForStatus(status)
             THEN /\ Raise(HTTPError(status))
                  /\ UNCHANGED <<fs, command>>
             ELSE /\ fs' = Put(fs, output, [file |-> "pem", from |-> "cedar"])
                  /\ command' = command \o before \o <<output>> \o after
                  /\ rpc' = next
                  /\ UNCHANGED error
    /\ UNCHANGED <<env, args, metrics, config, report, creds>>
    /\ UNCHANGED rollup_vars

\* CertRetriever._fetch(url, output), called at position at; it returns
\* output, which get_command puts into the command after the words before.
Fetch(at, output, before, after, next) ==
    /\ rpc = at
    /\ IF output \in DOMAIN fs
       THEN /\ command' = command \o before \o <<output>> \o after
            /\ rpc' = next
            /\ UNCHANGED <<fs, io, error>>
       ELSE \E status \in HttpStatuses :
              /\ io' = Append(io, [op |-> "http", output |-> output, status |-> status])
              /\ IF RaisesForStatus(status)
                 THEN /\ Raise(HTTPError(status))
                      /\ UNCHANGED <<fs, command>>
                 ELSE /\ fs' = Put(fs, output, [file |-> "pem", from |-> "cedar"])
                      /\ command' = command \o before \o <<output>> \o after
                      /\ rpc' = next
                      /\ UNCHANGED error
    /\ UNCHANGED <<env, args, metrics, config, report, creds>>
    /\ UNCHANGED rollup_vars

\* get_command, lines 211-226: the three fetches in the order of the list
FetchUserCert ==
    Fetch("user_cert", UserCert,
          <<<<"curator">>, <<"poplar">>, <<"send">>, <<"--service">>,
            <<"cedar.mongodb.com:7070">>, <<"--cert">>>>, <<>>, "user_key")

FetchUserKey == Fetch("user_key", UserKey, <<<<"--key">>>>, <<>>, "root_ca")

FetchRootCa ==
    Fetch("root_ca", RootCa, <<<<"--ca">>>>, <<<<"--path">>, REPORT_FILE>>, "run")

\* ShellCuratorRunner.run(cmd)
RunCurator ==
    /\ rpc = "run"
    /\ \E rc \in ExitCodes :
          /\ io' = Append(io, [op |-> "exec", cmd |-> command, rc |-> rc])
          /\ IF rc # 0
             THEN Raise(CalledProcessError(rc))
             ELSE rpc' = "done" /\ UNCHANGED error
    /\ UNCHANGED <<env, args, fs, metrics, config, report, creds, command>>
    /\ UNCHANGED rollup_vars

-----------------------------------------------------------------------------
(* The two programs *)

ReportIdle ==
    /\ rpc = "idle"
    /\ env = EmptyMap
    /\ args = EmptyMap
    /\ fs = EmptyMap
    /\ metrics = NoValue
    /\ config = NoValue
    /\ report = NoValue
    /\ creds = NoValue
    /\ command = <<>>
    /\ error = NoError
    /\ io = <<>>

RollupInit ==
    /\ pc = "for"
    /\ curator_names \in Vocabularies
    /\ listing \in Listings
    /\ idx = 0
    /\ output_file = Absent
    /\ result_map = EmptyMap
    /\ stdout = <<>>
    /\ ret = NotReturned
    /\ log = <<>>
    /\ ReportIdle

RollupNext ==
    \/ SkipEntry
    \/ CuratorFails
    \/ CuratorSucceeds
    \/ ReadOutput
    \/ PrintResult

SpecRollup == RollupInit /\ [][RollupNext]_vars

RollupIdle ==
    /\ pc = "idle"
    /\ curator_names = {}
    /\ listing = <<>>
    /\ idx = 0
    /\ output_file = Absent
    /\ result_map = EmptyMap
    /\ stdout = <<>>
    /\ ret = NotReturned
    /\ log = <<>>

ReportInit ==
    /\ rpc = "start"
    /\ env \in Envs
    /\ args \in ArgSets
    /\ fs \in FileSystems
    /\ metrics = NoValue
    /\ config = NoValue
    /\ report = NoValue
    /\ creds = NoValue
    /\ command = <<>>
    /\ error = NoError
    /\ io = <<>>
    /\ RollupIdle

ReportNext ==
    \/ SetTestName
    \/ CedarRun
    \/ MakeConfig
    \/ WriteReport
    \/ ReadJiraCredentials
    \/ FetchUserCert
    \/ FetchUserKey
    \/ FetchRootCa
    \/ RunCurator

SpecReport == ReportInit /\ [][ReportNext]_vars

-----------------------------------------------------------------------------
(* Properties of process_ftdc_files *)

Last(q) == q[Len(q)]

\* The captures of the directory, as the loop names them.
Captures == {BaseName(listing[i]) : i \in {j \in DOMAIN listing : EndsWith(listing[j], DotFtdc)}}

\* The log entries of the captures whose iteration is over.
Finished == {i \in DOMAIN log : i < Len(log) \/ pc # "read"}

\* The last capture's iteration is over and output_file still is its output.
LastRead == pc # "read" /\ log # <<>> /\ Last(log).exit = 0

\* The divisor the specification gives a recognized field.
Divisor(name) ==
    IF name \in {"AverageLatency", "Latency50thPercentile", "Latency80thPercentile",
                 "Latency90thPercentile", "Latency95thPercentile",
                 "Latency99thPercentile", "LatencyMin", "LatencyMax"} THEN 1000000
    ELSE IF name = "DurationTotal" THEN 1000000000
    ELSE 1

\* x is v/d to three decimal places: a multiple of 0.001 within 0.0005 of v/d
\* (v itself when d = 1).
IsRounded(name, v, x) ==
    IF Divisor(name) = 1 THEN x = PyInt(v)
    ELSE LET u == Divisor(name) \div 1000
             k == x.whole * 1000 + x.milli
         IN  /\ x.t = "float"
             /\ x.milli \in 0..999
             /\ 2 * (k * u - v) <= u
             /\ 2 * (v - k * u) <= u

\* The record of the last capture: its Value under the last record of a name.
LastValue(data, name) ==
    data[CHOOSE i \in DOMAIN data :
            /\ data[i].Name = name
            /\ \A j \in DOMAIN data : data[j].Name = name => j <= i].Value

\* C1: a capture whose curator run exits non-zero contributes no key, the
\* step that finds it failing leaves the aggregate as it was and goes on to
\* the next entry, no step touches the entry of another capture, and at the
\* end every capture of the directory has been taken, those that curator and
\* the parse accepted having their entry.
C1_FailedCaptureIsolated ==
    /\ [](\A i \in Finished : log[i].exit # 0 => log[i].base \notin DOMAIN result_map)
    /\ [](pc = "done" =>
            /\ {log[i].base : i \in DOMAIN log} = Captures
            /\ \A i \in DOMAIN log :
                  (log[i].exit = 0 /\ log[i].wellformed) => log[i].base \in DOMAIN result_map)
    /\ [][/\ (Len(log') > Len(log) /\ Last(log').exit # 0)
              => (result_map' = result_map /\ pc' = "for" /\ idx' = idx + 1)
          /\ \A b \in DOMAIN result_map :
                (pc = "done" \/ idx >= Len(listing) \/ b # BaseName(Filename))
                   => (b \in DOMAIN result_map' /\ result_map'[b] = result_map[b])]_vars

\* one capture failed and another one, after it, has its entry
C1_Witness ==
    /\ pc = "done"
    /\ Len(log) = 2
    /\ log[1].exit # 0
    /\ log[2].exit = 0
    /\ log[2].base \in DOMAIN result_map
    /\ result_map[log[2].base] # EmptyMap

\* C2: a capture whose output cannot be read, parsed or converted gets no
\* entry at all, the step that fails on it leaves the aggregate as it was and
\* goes on to the next entry, and at the end every capture has been taken.
C2_UnparsableCaptureSkipped ==
    /\ [](\A i \in Finished :
            (log[i].exit = 0 /\ ~log[i].wellformed) => log[i].base \notin DOMAIN result_map)
    /\ [](pc = "done" => {log[i].base : i \in DOMAIN log} = Captures)
    /\ [][(pc = "read" /\ ~WellFormed(output_file))
              => (result_map' = result_map /\ pc' = "for" /\ idx' = idx + 1)]_vars

\* a conversion failed on the second record, after the first was converted,
\* with an earlier capture's entry in the aggregate
C2_Witness ==
    /\ LastRead
    /\ Len(log) = 2
    /\ log[1].base \in DOMAIN result_map
    /\ result_map[log[1].base] # EmptyMap
    /\ ~log[2].wellformed
    /\ log[2].base \notin DOMAIN result_map
    /\ Len(output_file.data) = 2
    /\ output_file.data[1].Name \in FieldNames
    /\ output_file.data[1].Value.t = "int"
    /\ output_file.data[2].Name \in FieldNames
    /\ output_file.data[2].Value.t = "null"

\* C3: the keys of every per-file record are names of the conversion table,
\* and a capture whose output carries unknown names beside well-formed known
\* ones still gets its entry, with exactly the known names of its output.
C3_UnknownNamesDropped ==
    /\ \A b \in DOMAIN result_map : DOMAIN result_map[b] \subseteq FieldNames
    /\ (LastRead /\ Last(log).wellformed) =>
          /\ Last(log).base \in DOMAIN result_map
          /\ DOMAIN result_map[Last(log).base] =
                {output_file.data[i].Name : i \in DOMAIN output_file.data} \cap FieldNames

\* an output with an unknown name, even one with a null Value, was read
C3_Witness ==
    /\ LastRead
    /\ Last(log).base \in DOMAIN result_map
    /\ \E i \in DOMAIN output_file.data :
          /\ output_file.data[i].Name \notin FieldNames
          /\ output_file.data[i].Value.t = "null"
    /\ \E i \in DOMAIN output_file.data : output_file.data[i].Name \in FieldNames

\* C4: the record of a successfully processed capture stores, under every
\* recognized name of its output, the Value divided by the field's divisor
\* (1e6 latencies, 1e9 DurationTotal, 1 the others) to three decimal places.
C4_ConvertedAndRounded ==
    (LastRead /\ Last(log).wellformed) =>
        /\ Last(log).base \in DOMAIN result_map
        /\ \A i \in DOMAIN output_file.data :
              LET name == output_file.data[i].Name
              IN  name \in FieldNames =>
                    /\ name \in DOMAIN result_map[Last(log).base]
                    /\ IsRounded(name, LastValue(output_file.data, name).n,
                                 result_map[Last(log).base][name])

\* run1.ftdc with [{AverageLatency, 2000000}, {Unused, 5}] gives
\* {run1: {AverageLatency: 2.0}}
C4_Witness ==
    /\ pc = "done"
    /\ output_file = JsonArray(<<[Name |-> "AverageLatency", Value |-> JInt(2000000)],
                                 [Name |-> "Unused", Value |-> JInt(5)]>>)
    /\ result_map = [b \in {<<"r", "u", "n", "1">>} |->
                        [n \in {"AverageLatency"} |-> PyFloat3(2, 0)]]

\* C6 as stated: process_ftdc_files returns the aggregate mapping.
C6_ReturnsMapping ==
    pc = "done" => ret = [t |-> "dict", val |-> result_map]

\* C6 as the code has it: process_ftdc_files prints the aggregate mapping,
\* which has one key per successfully processed capture, as its last output,
\* and returns None.
C6_PrintsMapping ==
    pc = "done" =>
        /\ ret = PyNone
        /\ stdout # <<>>
        /\ Last(stdout) = JsonDump(result_map)
        /\ DOMAIN result_map =
              {log[i].base : i \in {j \in DOMAIN log : log[j].exit = 0 /\ log[j].wellformed}}

\* the function is over with two captures in the mapping it printed
C6_Witness ==
    /\ pc = "done"
    /\ Cardinality(DOMAIN result_map) = 2
    /\ Last(stdout).arg = result_map

-----------------------------------------------------------------------------
(* Properties of main__cedar_report *)

\* The I/O events of a kind.
Events(op) == {i \in DOMAIN io : io[i].op = op}

\* C5: the single Test of the built report has an artifacts list with one
\* TestArtifact per metric-file path of the config, in order, each with that
\* path as local_path and its basename as remote path.
C5_OneArtifactPerMetricFile ==
    report # NoValue =>
        /\ Len(report.tests) = 1
        /\ LET a == report.tests[1].artifacts
               paths == config.metrics_file_names
           IN  /\ a.py = "list"
               /\ DOMAIN a.val = DOMAIN paths
               /\ \A i \in DOMAIN paths :
                     /\ a.val[i].local_path = paths[i]
                     /\ a.val[i].path = Basename(paths[i])

\* C7 as stated: when a required environment key is missing, the KeyError is
\* raised before any I/O: no metrics conversion, no report file, no
\* certificate fetch, no upload.
C7_MissingKeyAbortsBeforeIO ==
    (error.exc = "KeyError" /\ error.arg \in EnvKeys) => io = <<>>

\* C7 as the code has it: a run whose environment lacks a required key never
\* gets to a certificate fetch or to the upload tool, and the KeyError that
\* ends it names a missing key and is raised
\*   - before any I/O for EVG_task_name when no --test-name is given,
\*   - after the metrics conversion alone for a key that _Config reads,
\*   - after the metrics conversion and the writing of the report file for
\*     perf_jira_user and perf_jira_pw.
C7_MissingKeyIsFatal ==
    /\ (EnvKeys \ DOMAIN env # {}) =>
          /\ rpc \notin {"user_cert", "user_key", "root_ca", "run", "done"}
          /\ Events("http") = {}
          /\ Events("exec") = {}
    /\ error.exc = "KeyError" =>
          /\ error.arg \in EnvKeys \ DOMAIN env
          /\ IF error.arg \in {"perf_jira_user", "perf_jira_pw"}
             THEN /\ Len(io) = 2
                  /\ io[1].op = "cedar.run"
                  /\ io[2].op = "write"
             ELSE IF error.arg = "EVG_task_name" /\ args.test_name = ""
             THEN io = <<>>
             ELSE io = <<[op |-> "cedar.run"]>>

\* the run ended on a missing perf_jira_pw, the report file already written
C7_Witness ==
    /\ rpc = "raised"
    /\ error.exc = "KeyError"
    /\ error.arg = "perf_jira_pw"
    /\ Events("write") # {}

\* C8: a report is built whatever the patch flag is, set or not, and its
\* mainline is false exactly when EVG_is_patch is "true".
C8_MainlineIsNotPatch ==
    /\ ~(error.exc = "KeyError" /\ error.arg = "EVG_is_patch")
    /\ report # NoValue =>
          report.mainline = ~("EVG_is_patch" \in DOMAIN env /\ env["EVG_is_patch"] = "true")

\* The upload tool runs only with the three certificate files in place, each
\* one either the file that was there, never fetched, or the answer of a
\* fetch that did not fail; and a fetch that fails, failing being what
\* Failing says of a status, ends the run with no file for that artifact and
\* no upload.
UploadAfterCertificates(Failing(_)) ==
    /\ Events("exec") # {} =>
          \A pem \in PemFiles :
             /\ pem \in DOMAIN fs
             /\ \/ fs[pem] = CachedPem
                \/ \E i \in Events("http") : io[i].output = pem /\ ~Failing(io[i].status)
    /\ \A pem \in PemFiles :
          (pem \in DOMAIN fs /\ fs[pem] = CachedPem) =>
              \A i \in Events("http") : io[i].output # pem
    /\ \A i \in Events("http") :
          Failing(io[i].status) =>
             /\ error.exc = "HTTPError"
             /\ i = Len(io)
             /\ io[i].output \notin DOMAIN fs
             /\ Events("exec") = {}

Non2xx(status) == status < 200 \/ status > 299
Is4xx5xx(status) == status >= 400 /\ status <= 599

\* C9 as stated: a fetch that returns a non-2xx status is fatal.
C9_Non2xxIsFatal == UploadAfterCertificates(Non2xx)

\* C9 as the code has it: the upload tool is executed only after the three
\* PEM files are there, each from an existing local file without a network
\* call or from a fetch that did not fail; a fetch that returns a 4xx or 5xx
\* status raises, writes no file and the upload tool is never executed.
C9_ErrorStatusIsFatal == UploadAfterCertificates(Is4xx5xx)

\* the upload ran with one certificate from the cache and two fetched
C9_Witness ==
    /\ Events("exec") # {}
    /\ fs[UserCert] = CachedPem
    /\ \E i, j \in Events("http") :
          /\ io[i].output = UserKey /\ io[i].status = 200
          /\ io[j].output = RootCa /\ io[j].status = 200

\* the path after --path in a command
RECURSIVE PathArg(_)
PathArg(cmd) ==
    IF Len(cmd) < 2 THEN <<>>
    ELSE IF cmd[1] = <<"--path">> THEN cmd[2]
    ELSE PathArg(Tail(cmd))

\* os.path.normpath, as far as the paths of the model need it
RECURSIVE Normpath(_)
Normpath(path) ==
    IF Len(path) >= 2 /\ path[1] = "." /\ path[2] = Sep
    THEN Normpath(SubSeq(path, 3, Len(path)))
    ELSE path

\* C10: the path handed to the upload tool is the path of the report file
\* this run wrote, output_dir joined with report_file, and the file was
\* written before the tool was executed.
C10_UploadsWrittenReport ==
    \A i \in Events("exec") :
       /\ Normpath(PathArg(io[i].cmd)) = Normpath(Join(args.output_dir, args.report_file))
       /\ \E j \in Events("write") :
             j < i /\ io[j].path = Join(args.output_dir, args.report_file)

=============================================================================
